---- MODULE Spec2Model ----
(***************************************************************************)
(* Network-simplex layering (graphs/p1_layering/mod.rs): the typestate     *)
(* chain Unlayered -> Ranked -> Tight -> InitLowLim and the Pivoter        *)
(* Feasible::rank, over a petgraph StableDiGraph<Vertex, Edge>.            *)
(*                                                                         *)
(* A graph is a record: node_count, edge_count, endpoints (edge index ->   *)
(* <<tail, head>>), vertex (node index -> Vertex), edge (edge index ->     *)
(* Edge).  Node and edge indices start at 0 as petgraph's do.  Option<T>   *)
(* is a sequence: None is <<>>, Some(x) is <<x>>.                          *)
(***************************************************************************)
EXTENDS Integers, Sequences, FiniteSets, TLC

VARIABLES
    graph,           \* the StableDiGraph<Vertex, Edge> the current stage owns
    minimum_length,  \* the stage's minimum_length
    stage,           \* the typestate holding the graph, or how the run ended
    fault,           \* the function that panicked or never returned ("" if none)
    nodes,           \* make_tight: how many start vertices `nodes` has yielded
    dfs,             \* make_tight: the TightTreeDFS (vertices, edges)
    pivots,          \* Feasible::rank: iterations of the while loop begun
    upd,             \* the fields of an Upd besides graph and minimum_length
    entry            \* the graph as Upd::new received it (None outside an Upd)

vars == <<graph, minimum_length, stage, fault, nodes, dfs, pivots, upd, entry>>

\* ------------------------------------------------------------ bounds
MaxNodes == 4
MaxEdges == 4
MaxMinLen == 2
MaxWeight == 2
MaxPivots == 2

\* ------------------------------------------------------------ Option
None == <<>>
Some(x) == <<x>>
IsSome(o) == Len(o) = 1
Unwrap(o) == o[1]

\* ------------------------------------------------------------ graph store
NodeIndices(g) == 0 .. (g.node_count - 1)
EdgeIndices(g) == 0 .. (g.edge_count - 1)
source(g, e) == g.endpoints[e][1]
target(g, e) == g.endpoints[e][2]

\* struct Vertex / impl Default for Vertex (the id field is never written)
DefaultVertex == [rank |-> 0, low |-> 0, lim |-> 0, parent |-> None]

\* struct Edge / impl Default for Edge
DefaultEdge == [weight |-> 1, cut_value |-> None, is_tree_edge |-> FALSE]

Max(S) == CHOOSE x \in S : \A y \in S : y <= x
Min(S) == CHOOSE x \in S : \A y \in S : x <= y

\* The elements of a finite set of integers, largest first.
RECURSIVE Descending(_)
Descending(S) == IF S = {} THEN <<>> ELSE <<Max(S)>> \o Descending(S \ {Max(S)})

\* The elements of a finite set of integers, smallest first.
RECURSIVE Ascending(_)
Ascending(S) == IF S = {} THEN <<>> ELSE <<Min(S)>> \o Ascending(S \ {Min(S)})

\* petgraph keeps a node's outgoing and incoming edges in two linked lists with
\* the edge added last at the front: edges_directed walks one list.
edges_directed(g, v, dir) ==
    IF dir = "Outgoing"
    THEN Descending({e \in EdgeIndices(g) : source(g, e) = v})
    ELSE Descending({e \in EdgeIndices(g) : target(g, e) = v})

\* The other endpoint of edge e seen from v.
Other(g, e, v) == IF source(g, e) = v THEN target(g, e) ELSE source(g, e)

\* neighbors_undirected: the outgoing list, then the incoming list.
edges_undirected(g, v) == edges_directed(g, v, "Outgoing") \o edges_directed(g, v, "Incoming")

\* Graph::find_edge(a, b): the first edge a -> b in a's outgoing list.
find_edge(g, a, b) ==
    LET es == {e \in EdgeIndices(g) : source(g, e) = a /\ target(g, e) = b}
    IN  IF es = {} THEN None ELSE Some(Max(es))

\* Graph::find_edge_undirected(a, b): a's outgoing list, then its incoming list.
find_edge_undirected(g, a, b) ==
    IF IsSome(find_edge(g, a, b)) THEN find_edge(g, a, b) ELSE find_edge(g, b, a)

\* StableDiGraph::from_edges(edges): nodes 0 .. the largest index named, one
\* default Edge per pair in the order given, default vertices.
from_edges(edges) ==
    LET m == Len(edges)
        n == 1 + Max({edges[i][1] : i \in 1..m} \cup {edges[i][2] : i \in 1..m})
    IN  [node_count |-> n,
         edge_count |-> m,
         endpoints |-> [e \in 0..(m - 1) |-> edges[e + 1]],
         vertex |-> [v \in 0..(n - 1) |-> DefaultVertex],
         edge |-> [e \in 0..(m - 1) |-> DefaultEdge]]

\* trait SlackGraph: slack of an edge under the current ranks.
slack(g, ml, e) == g.vertex[target(g, e)].rank - g.vertex[source(g, e)].rank - ml

\* ------------------------------------------------------------ input graphs
\* Vertices reachable from the set S along edges taken in either direction.
RECURSIVE UndirectedReach(_, _)
UndirectedReach(g, S) ==
    LET N == S \cup {target(g, e) : e \in {x \in EdgeIndices(g) : source(g, x) \in S}}
               \cup {source(g, e) : e \in {x \in EdgeIndices(g) : target(g, x) \in S}}
    IN  IF N = S THEN S ELSE UndirectedReach(g, N)

IsConnected(g) == UndirectedReach(g, {0}) = NodeIndices(g)

\* A DAG: repeatedly removing a vertex without remaining incoming edges
\* removes every vertex.
RECURSIVE SourcesPeel(_, _)
SourcesPeel(g, left) ==
    LET src == {v \in left : \A e \in EdgeIndices(g) : target(g, e) = v => source(g, e) \notin left}
    IN  IF src = {} THEN left ELSE SourcesPeel(g, left \ src)

IsAcyclic(g) == SourcesPeel(g, NodeIndices(g)) = {}

Pairs == {p \in (0..(MaxNodes - 1)) \X (0..(MaxNodes - 1)) : p[1] # p[2]}

EdgeLists == UNION {[1..m -> Pairs] : m \in 1..MaxEdges}

\* The connected DAGs the pipeline is specified for (spec section 6).
InputGraphs == {g \in {from_edges(es) : es \in EdgeLists} : IsAcyclic(g) /\ IsConnected(g)}

\* ------------------------------------------------------------ Unlayered
\* start(edges, minimum_length)
start(edges, ml) == [graph |-> from_edges(edges), minimum_length |-> ml]

\* A sort that hands back the vertices in index order whether or not the
\* edges allow it.
TopoOrders_any(g) == {[i \in 1..g.node_count |-> i - 1]}

\* The topological orders that begin with prefix: the next vertex is any
\* vertex not yet placed all of whose incoming edges come from placed ones.
RECURSIVE TopoExtend(_, _)
TopoExtend(g, prefix) ==
    LET placed == {prefix[i] : i \in 1..Len(prefix)}
        avail == {v \in NodeIndices(g) \ placed :
                     \A e \in EdgeIndices(g) : target(g, e) = v => source(g, e) \in placed}
    IN  IF Len(prefix) = g.node_count THEN {prefix}
        ELSE UNION {TopoExtend(g, Append(prefix, v)) : v \in avail}

\* petgraph::algo::toposort returns some topological order of the vertices
\* (an Err, unwrapped into a panic, when there is none: the graph has a cycle).
TopoOrders(g) == TopoExtend(g, <<>>)

\* rank_vertex taking the smallest instead of the largest candidate.
rank_vertex_min(g, v) ==
    LET inc == {source(g, e) : e \in {x \in EdgeIndices(g) : target(g, x) = v}}
    IN  IF inc = {} THEN g
        ELSE [g EXCEPT !.vertex[v].rank = Min({g.vertex[n].rank + 1 : n \in inc})]

\* The body of the for loop of initial_ranking for vertex v.
rank_vertex(g, v) ==
    LET inc == {source(g, e) : e \in {x \in EdgeIndices(g) : target(g, x) = v}}
    IN  IF inc = {} THEN g
        ELSE [g EXCEPT !.vertex[v].rank = Max({g.vertex[n].rank + 1 : n \in inc})]

RECURSIVE initial_ranking_from(_, _, _)
initial_ranking_from(g, order, i) ==
    IF i > Len(order) THEN g
    ELSE initial_ranking_from(rank_vertex(g, order[i]), order, i + 1)

\* Unlayered::initial_ranking, given the order toposort returned.
initial_ranking(g, order) == initial_ranking_from(g, order, 1)

\* ------------------------------------------------------------ TightTreeDFS
\* tree.rs is not part of the sources at hand; the DFS follows the design
\* text (4.3 step 1): from the start vertex, walk the edges already in the
\* tree and extend the tree across every incident edge of slack zero whose
\* other endpoint is not yet in it; the result counts the vertices walked.
NewTightTreeDFS == [vertices |-> {}, edges |-> {}]

RECURSIVE tight_tree(_, _, _, _)
RECURSIVE tight_tree_edges(_, _, _, _, _, _)

\* st = [vertices, edges, visited (edges), count]
tight_tree(g, ml, st, vertex) ==
    tight_tree_edges(g, ml,
                     [st EXCEPT !.vertices = @ \cup {vertex}, !.count = @ + 1],
                     vertex, edges_undirected(g, vertex), 1)

tight_tree_edges(g, ml, st, vertex, es, i) ==
    IF i > Len(es) THEN st
    ELSE LET e == es[i]
             other == Other(g, e, vertex)
             st1 == [st EXCEPT !.visited = @ \cup {e}]
         IN  IF e \in st.visited
             THEN tight_tree_edges(g, ml, st, vertex, es, i + 1)
             ELSE IF e \in st.edges
             THEN tight_tree_edges(g, ml, tight_tree(g, ml, st1, other), vertex, es, i + 1)
             ELSE IF other \notin st.vertices /\ slack(g, ml, e) = 0
             THEN tight_tree_edges(g, ml,
                      tight_tree(g, ml, [st1 EXCEPT !.edges = @ \cup {e}], other),
                      vertex, es, i + 1)
             ELSE tight_tree_edges(g, ml, st1, vertex, es, i + 1)

contains_vertex(d, v) == v \in d.vertices
contains_edge(d, e) == e \in d.edges

\* exactly one endpoint of e is in the tight component
is_incident_edge(d, g, e) ==
    (source(g, e) \in d.vertices) # (target(g, e) \in d.vertices)

\* ------------------------------------------------------------ Ranked
\* Ranked::find_non_tight_edge: min_by keeps the first of several minima; the
\* unwrap panics on None.
find_non_tight_edge(g, ml, d) ==
    LET cand == {e \in EdgeIndices(g) : ~contains_edge(d, e) /\ is_incident_edge(d, g, e)}
        least == Min({slack(g, ml, e) : e \in cand})
    IN  IF cand = {} THEN None
        ELSE Some(Min({e \in cand : slack(g, ml, e) = least}))

\* Ranked::tighten_edge: both endpoints of every edge of the DFS are shifted.
RECURSIVE tighten_edge(_, _, _)
tighten_edge(g, es, delta) ==
    IF es = {} THEN g
    ELSE LET e == CHOOSE x \in es : TRUE
             g1 == [g EXCEPT !.vertex[source(g, e)].rank = @ + delta]
             g2 == [g1 EXCEPT !.vertex[target(g, e)].rank = @ + delta]
         IN  tighten_edge(g2, es \ {e}, delta)

\* Ranked::mark_tree_edges
mark_tree_edges(g, es) ==
    [g EXCEPT !.edge = [e \in EdgeIndices(g) |->
                           IF e \in es THEN [g.edge[e] EXCEPT !.is_tree_edge = TRUE]
                           ELSE g.edge[e]]]

\* ------------------------------------------------------------ Tight
\* Tight::leaves: the vertices with exactly one incident tree edge, in node order.
leaves(g) ==
    Ascending({v \in NodeIndices(g) :
        Cardinality({e \in EdgeIndices(g) :
            (source(g, e) = v \/ target(g, e) = v) /\ g.edge[e].is_tree_edge}) = 1})

NewNeighborhoodInfo ==
    [cut_value_sum |-> 0, tree_edge_weight_sum |-> 0,
     non_tree_edge_weight_sum |-> 0, missing |-> None]

\* The for loop of get_neighborhood_info from the i-th edge on; None when a
\* second tree edge without cut value is met.
RECURSIVE neighborhood_info_from(_, _, _, _, _)
neighborhood_info_from(g, vertex, es, i, info) ==
    IF i > Len(es) THEN Some(info)
    ELSE LET edge == g.edge[es[i]]
         IN  IF ~edge.is_tree_edge
             THEN neighborhood_info_from(g, vertex, es, i + 1,
                      [info EXCEPT !.non_tree_edge_weight_sum = @ + edge.weight])
             ELSE IF IsSome(edge.cut_value)
             THEN neighborhood_info_from(g, vertex, es, i + 1,
                      [info EXCEPT !.cut_value_sum = @ + Unwrap(edge.cut_value),
                                   !.tree_edge_weight_sum = @ + edge.weight])
             ELSE IF info.missing = None
             THEN neighborhood_info_from(g, vertex, es, i + 1,
                      [info EXCEPT !.missing = Some(Other(g, es[i], vertex))])
             ELSE None

\* get_neighborhood_info (Tight and trait CalculateCutValues: the same text)
get_neighborhood_info(g, vertex, direction) ==
    neighborhood_info_from(g, vertex, edges_directed(g, vertex, direction), 1, NewNeighborhoodInfo)

\* calculate_cut_value
calculate_cut_value(g, edge, incoming, outgoing) ==
    g.edge[edge].weight
    + incoming.non_tree_edge_weight_sum - incoming.cut_value_sum + incoming.tree_edge_weight_sum
    - outgoing.non_tree_edge_weight_sum + outgoing.cut_value_sum - outgoing.tree_edge_weight_sum

\* One iteration of the while loop of calculate_cut_values on a non-empty
\* queue: the graph and the queue it leaves.
cut_values_step(g, queue) ==
    LET vertex == Head(queue)
        rest == Tail(queue)
        inc == get_neighborhood_info(g, vertex, "Incoming")
        out == get_neighborhood_info(g, vertex, "Outgoing")
        skip == [graph |-> g, queue |-> rest]
    IN  IF inc = None \/ out = None THEN skip
        ELSE LET i == Unwrap(inc)
                 o == Unwrap(out)
             IN  IF IsSome(i.missing) = IsSome(o.missing) THEN skip
                 ELSE LET missing == IF IsSome(i.missing) THEN Unwrap(i.missing)
                                     ELSE Unwrap(o.missing)
                          fwd == find_edge(g, vertex, missing)
                          edge == IF IsSome(fwd) THEN Unwrap(fwd)
                                  ELSE Unwrap(find_edge(g, missing, vertex))
                          cv == IF IsSome(fwd) THEN calculate_cut_value(g, edge, o, i)
                                ELSE calculate_cut_value(g, edge, i, o)
                      IN  [graph |-> [g EXCEPT !.edge[edge].cut_value = Some(cv)],
                           queue |-> Append(rest, missing)]

\* calculate_cut_values: the loop runs until the queue is empty.  `seen` holds
\* the (graph, queue) pairs the loop head has been at: meeting one again, the
\* loop repeats itself for ever and the call never returns.
RECURSIVE cut_values_loop(_, _, _)
cut_values_loop(g, queue, seen) ==
    IF queue = <<>> THEN [graph |-> g, returned |-> TRUE]
    ELSE IF <<g, queue>> \in seen THEN [graph |-> g, returned |-> FALSE]
    ELSE LET r == cut_values_step(g, queue)
         IN  cut_values_loop(r.graph, r.queue, seen \cup {<<g, queue>>})

calculate_cut_values(g, queue) == cut_values_loop(g, queue, {})

\* ------------------------------------------------------------ LowLimDFS
\* neighbors_undirected(v).detach().next_node(): the walker is made anew for
\* every evaluation of the while-let, so it always yields v's first neighbour.
first_neighbor(g, v) ==
    LET es == edges_undirected(g, v)
    IN  IF es = <<>> THEN None ELSE Some(Other(g, es[1], v))

RECURSIVE dfs_low_lim(_, _, _, _, _)
RECURSIVE dfs_low_lim_loop(_, _)

\* st = [graph, max_lim, visited, outcome]; outcome is "returned", "spin" (the
\* while-let loop repeats on a visited first neighbour without changing
\* anything) or "overflow" (*max_lim -= 1 with max_lim = 0: u32 underflow).
dfs_low_lim(g, next, parent, max_lim, visited) ==
    LET g1 == [g EXCEPT !.vertex[next].lim = max_lim, !.vertex[next].parent = parent]
    IN  dfs_low_lim_loop([graph |-> g1, max_lim |-> max_lim,
                          visited |-> visited \cup {next}, outcome |-> "returned"],
                         next)

dfs_low_lim_loop(st, next) ==
    LET n == first_neighbor(st.graph, next)
    IN  IF n = None THEN st
        ELSE IF Unwrap(n) \in st.visited THEN [st EXCEPT !.outcome = "spin"]
        ELSE IF st.max_lim = 0 THEN [st EXCEPT !.outcome = "overflow"]
        ELSE LET r == dfs_low_lim(st.graph, Unwrap(n), Some(next), st.max_lim - 1, st.visited)
             IN  IF r.outcome # "returned" THEN r
                 ELSE dfs_low_lim_loop(
                          [r EXCEPT !.graph = [r.graph EXCEPT !.vertex[next].low = r.max_lim]],
                          next)

\* ------------------------------------------------------------ Feasible
\* leave_edge with the comparison cut_value <= 0.
leave_edge_nonpositive(g) ==
    LET neg == {e \in EdgeIndices(g) :
                   IsSome(g.edge[e].cut_value) /\ Unwrap(g.edge[e].cut_value) <= 0}
    IN  IF neg = {} THEN None ELSE Some(Min(neg))

\* Feasible::leave_edge: the first edge, in index order, with a negative cut value.
leave_edge(g) ==
    LET neg == {e \in EdgeIndices(g) :
                   IsSome(g.edge[e].cut_value) /\ Unwrap(g.edge[e].cut_value) < 0}
    IN  IF neg = {} THEN None ELSE Some(Min(neg))

\* Feasible::is_head_to_tail; u is a Vertex value.
is_head_to_tail(g, edge, u, root_is_in_head) ==
    LET tail == g.vertex[source(g, edge)]
        head == g.vertex[target(g, edge)]
    IN  /\ root_is_in_head = (u.low <= head.lim /\ head.lim <= u.lim)
        /\ root_is_in_head # (u.low <= tail.lim /\ tail.lim <= u.lim)

\* Feasible::enter_edge: None stands for the unwrap that panics.
enter_edge(g, ml, edge) ==
    LET t == g.vertex[source(g, edge)]
        h == g.vertex[target(g, edge)]
        u == IF ~(t.lim < h.lim) THEN h ELSE t
        v == IF ~(t.lim < h.lim) THEN t ELSE h
        cand == {e \in EdgeIndices(g) :
                    ~g.edge[e].is_tree_edge /\ is_head_to_tail(g, e, u, u.lim < v.lim)}
        least == Min({slack(g, ml, e) : e \in cand})
    IN  IF cand = {} THEN None
        ELSE Some(Min({e \in cand : slack(g, ml, e) = least}))

\* Feasible::get_path_in_tree.  Neither loop advances w or x: each either
\* leaves in its first iteration or repeats it for ever, pushing onto the
\* path ("spin").  "panic": the assert!, an unwrap of None or the assert_eq!.
get_path_in_tree(g, edge) ==
    LET w_id == source(g, edge)
        x_id == target(g, edge)
        w == g.vertex[w_id]
        x == g.vertex[x_id]
        failed(how) == [outcome |-> how, path |-> <<>>, least_common_ancestor |-> 0]
    IN  IF g.edge[edge].is_tree_edge THEN failed("panic")
        ELSE IF w.parent = None THEN failed("panic")
        ELSE LET l_id == Unwrap(w.parent)
                 l == g.vertex[l_id]
                 first == find_edge_undirected(g, w_id, l_id)
             IN  IF first = None THEN failed("panic")
                 ELSE IF ~(l.low <= w.lim /\ x.lim <= l.lim) THEN failed("spin")
                 ELSE IF x.parent = None THEN failed("panic")
                 ELSE LET l2_id == Unwrap(x.parent)
                          l2 == g.vertex[l2_id]
                      IN  IF l2.low <= w.lim /\ x.lim <= l2.lim
                          THEN IF l2_id = l_id
                               THEN [outcome |-> "returned", path |-> <<Unwrap(first)>>,
                                     least_common_ancestor |-> l_id]
                               ELSE failed("panic")
                          ELSE IF find_edge_undirected(g, x_id, l2_id) = None
                          THEN failed("panic")
                          ELSE failed("spin")

\* The swap of Feasible::exchange.
swap_edges(g, edge, swap_edge) ==
    [g EXCEPT !.edge = [e \in EdgeIndices(g) |->
        IF e = swap_edge THEN [g.edge[e] EXCEPT !.is_tree_edge = TRUE]
        ELSE IF e = edge THEN [g.edge[e] EXCEPT !.is_tree_edge = FALSE]
        ELSE g.edge[e]]]

\* ------------------------------------------------------------ Upd
\* Upd::new: the fields besides graph and minimum_length.
NewUpd(connecting_path, removed_edge, least_common_ancestor) ==
    [connecting_path |-> connecting_path,
     removed_edge |-> removed_edge,
     least_common_ancestor |-> least_common_ancestor,
     updated_cut_values |-> FALSE,
     updated_low_lim |-> FALSE,
     updated_ranks |-> FALSE]

\* No Upd exists.
NoUpd == NewUpd(<<>>, 0, 0)

\* Upd::remove_outdated_cutvalues
remove_outdated_cutvalues(g, connecting_path, removed_edge) ==
    [g EXCEPT !.edge = [e \in EdgeIndices(g) |->
        IF e = removed_edge \/ \E i \in 1..Len(connecting_path) : connecting_path[i] = e
        THEN [g.edge[e] EXCEPT !.cut_value = None]
        ELSE g.edge[e]]]

\* Upd::update_cutvalues
update_cutvalues(g, connecting_path, removed_edge) ==
    calculate_cut_values(remove_outdated_cutvalues(g, connecting_path, removed_edge),
                         <<source(g, removed_edge)>>)

\* Upd::update_low_lim
update_low_lim(g, least_common_ancestor) ==
    LET parent == g.vertex[least_common_ancestor].parent
        visited == IF IsSome(parent) THEN {Unwrap(parent)} ELSE {}
    IN  dfs_low_lim(g, least_common_ancestor, parent,
                    g.vertex[least_common_ancestor].lim, visited)

\* Upd::update_neighbor_ranks: as in dfs_low_lim the walker is made anew for
\* every evaluation of the while-let and yields the first edge of the list.
\* st = [graph, queue, visited, returned]
RECURSIVE update_neighbor_ranks(_, _, _, _, _)
update_neighbor_ranks(st, ml, parent, direction, coefficient) ==
    LET es == edges_directed(st.graph, parent, direction)
    IN  IF es = <<>> THEN st
        ELSE LET edge == es[1]
                 other == Other(st.graph, edge, parent)
             IN  IF ~st.graph.edge[edge].is_tree_edge \/ other \in st.visited
                 THEN [st EXCEPT !.returned = FALSE]
                 ELSE update_neighbor_ranks(
                          [st EXCEPT !.graph = [st.graph EXCEPT !.vertex[other].rank =
                                                   st.graph.vertex[parent].rank + ml * coefficient],
                                     !.queue = Append(@, other),
                                     !.visited = @ \cup {other}],
                          ml, parent, direction, coefficient)

RECURSIVE update_ranks_loop(_, _)
update_ranks_loop(st, ml) ==
    IF st.queue = <<>> \/ ~st.returned THEN st
    ELSE LET parent == Head(st.queue)
             o == update_neighbor_ranks([st EXCEPT !.queue = Tail(@)], ml, parent, "Outgoing", 1)
             i == IF o.returned THEN update_neighbor_ranks(o, ml, parent, "Incoming", -1) ELSE o
         IN  update_ranks_loop(i, ml)

\* Upd::update_ranks
update_ranks(g, ml) ==
    update_ranks_loop([graph |-> [g EXCEPT !.vertex[0].rank = 0], queue |-> <<0>>,
                       visited |-> {0}, returned |-> TRUE], ml)

\* One iteration of the while loop of Feasible::rank for the leave edge:
\* enter_edge, exchange, update_cutvalues, update_low_lim, update_ranks and
\* execute.  outcome: "returned" (execute handed back a Feasible), "panic",
\* "spin" or "overflow"; fault names the function it ended in.
pivot(g, ml, edge) ==
    LET swap_edge == enter_edge(g, ml, edge)
        p == get_path_in_tree(g, Unwrap(swap_edge))
        c == update_cutvalues(swap_edges(g, edge, Unwrap(swap_edge)), p.path, edge)
        l == update_low_lim(c.graph, p.least_common_ancestor)
        r == update_ranks(l.graph, ml)
    IN  IF swap_edge = None
        THEN [graph |-> g, outcome |-> "panic", fault |-> "enter_edge"]
        ELSE IF p.outcome # "returned"
        THEN [graph |-> g, outcome |-> p.outcome, fault |-> "get_path_in_tree"]
        ELSE IF ~c.returned
        THEN [graph |-> c.graph, outcome |-> "spin", fault |-> "calculate_cut_values"]
        ELSE IF l.outcome # "returned"
        THEN [graph |-> l.graph, outcome |-> l.outcome, fault |-> "dfs_low_lim"]
        ELSE IF ~r.returned
        THEN [graph |-> r.graph, outcome |-> "spin", fault |-> "update_neighbor_ranks"]
        ELSE [graph |-> r.graph, outcome |-> "returned", fault |-> ""]

\* The stage a call leaves, by how it ended.  On u32 underflow a build with
\* overflow checks panics; a build without them goes on from u32::MAX and,
\* every vertex the DFS enters having a neighbour, ends in the spinning loop.
Ends(outcome) ==
    CASE outcome = "returned" -> {"returned"}
      [] outcome = "spin" -> {"Diverged"}
      [] outcome = "panic" -> {"Panicked"}
      [] OTHER -> {"Panicked", "Diverged"}

\* ------------------------------------------------------------ the invariants of the design
TreeEdges(g) == {e \in EdgeIndices(g) : g.edge[e].is_tree_edge}

\* Vertices joined to those of S by edges of the set es, in either direction.
RECURSIVE ReachBy(_, _, _)
ReachBy(g, es, S) ==
    LET N == S \cup {target(g, e) : e \in {x \in es : source(g, x) \in S}}
               \cup {source(g, e) : e \in {x \in es : target(g, x) \in S}}
    IN  IF N = S THEN S ELSE ReachBy(g, es, N)

\* es is a spanning tree of the underlying undirected graph.
IsSpanningTree(g, es) ==
    /\ Cardinality(es) = g.node_count - 1
    /\ ReachBy(g, es, {0}) = NodeIndices(g)

\* I1: every edge spans at least minimum_length.
Feasibility(g, ml) == \A e \in EdgeIndices(g) : slack(g, ml, e) >= 0

\* I2: every tree edge is tight.
Tightness(g, ml) == \A e \in TreeEdges(g) : slack(g, ml, e) = 0

\* ------------------------------------------------------------ stage values built directly
\* The typestate records are plain structs (Tight { graph, minimum_length },
\* Feasible { graph, minimum_length }): a caller in the module hands a stage a
\* graph it has prepared itself.  The values below are the ones the design
\* text allows at these stages: a spanning tree (I3) whose edges are tight (I2)
\* under feasible ranks (I1), for Feasible also with the cut values of I5 and
\* the low/lim/parent labels of I4.
RECURSIVE SumWeights(_, _)
SumWeights(g, es) ==
    IF es = {} THEN 0
    ELSE LET e == CHOOSE x \in es : TRUE
         IN  g.edge[e].weight + SumWeights(g, es \ {e})

\* I5 by definition: drop the tree edge, split the tree into the component of
\* its tail and the component of its head, and sum the weights of the edges
\* from the tail component to the head component minus those going back.
BruteForceCut(g, e) ==
    LET rest == TreeEdges(g) \ {e}
        tc == ReachBy(g, rest, {source(g, e)})
        hc == ReachBy(g, rest, {target(g, e)})
    IN  SumWeights(g, {x \in EdgeIndices(g) : source(g, x) \in tc /\ target(g, x) \in hc})
        - SumWeights(g, {x \in EdgeIndices(g) : source(g, x) \in hc /\ target(g, x) \in tc})

\* Ranks that make every edge of the spanning tree es tight, vertex 0 at 0.
RECURSIVE TreeRanks(_, _, _, _)
TreeRanks(g, es, ml, r) ==
    LET new == {e \in es : (source(g, e) \in DOMAIN r) # (target(g, e) \in DOMAIN r)}
    IN  IF new = {} THEN r
        ELSE LET e == CHOOSE x \in new : TRUE
                 v == IF source(g, e) \in DOMAIN r THEN target(g, e) ELSE source(g, e)
                 rv == IF source(g, e) \in DOMAIN r THEN r[source(g, e)] + ml
                       ELSE r[target(g, e)] - ml
             IN  TreeRanks(g, es, ml, [x \in DOMAIN r \cup {v} |-> IF x = v THEN rv ELSE r[x]])

WithTree(g, es, ml, w) ==
    LET r == TreeRanks(g, es, ml, [x \in {0} |-> 0])
    IN  [g EXCEPT !.vertex = [v \in NodeIndices(g) |-> [g.vertex[v] EXCEPT !.rank = r[v]]],
                  !.edge = [e \in EdgeIndices(g) |->
                               [weight |-> w[e], cut_value |-> None, is_tree_edge |-> e \in es]]]

\* The children of v in the tree rooted at 0, in the order of v's edge lists.
TreeNeighbors(g, v) ==
    LET es == SelectSeq(edges_undirected(g, v), LAMBDA e : g.edge[e].is_tree_edge)
    IN  [i \in 1..Len(es) |-> Other(g, es[i], v)]

\* The labelling the LowLimLabeller is specified to produce (4.5): a vertex
\* takes lim from a counter that starts at n and drops by one per descent;
\* low is the smallest lim handed out in its subtree.
RECURSIVE LabelTree(_, _, _)
RECURSIVE LabelChildren(_, _, _, _)
LabelTree(st, v, parent) ==
    LET g1 == [st.graph EXCEPT !.vertex[v].lim = st.next_lim, !.vertex[v].parent = parent]
        r == LabelChildren([graph |-> g1, next_lim |-> st.next_lim], v, TreeNeighbors(g1, v), 1)
    IN  [r EXCEPT !.graph = [r.graph EXCEPT !.vertex[v].low = r.next_lim]]

LabelChildren(st, v, ns, i) ==
    IF i > Len(ns) THEN st
    ELSE IF Some(ns[i]) = st.graph.vertex[v].parent THEN LabelChildren(st, v, ns, i + 1)
    ELSE LabelChildren(LabelTree([st EXCEPT !.next_lim = @ - 1], ns[i], Some(v)), v, ns, i + 1)

WithCutValues(g) ==
    [g EXCEPT !.edge = [e \in EdgeIndices(g) |->
        IF g.edge[e].is_tree_edge
        THEN [g.edge[e] EXCEPT !.cut_value = Some(BruteForceCut(g, e))]
        ELSE g.edge[e]]]

WithLowLim(g) == LabelTree([graph |-> g, next_lim |-> g.node_count], 0, None).graph

\* Input graphs whose edge list is in nondecreasing order of (tail, head).
Leq(p, q) == p[1] < q[1] \/ (p[1] = q[1] /\ p[2] <= q[2])
SortedInputGraphs ==
    {g \in InputGraphs : \A e \in EdgeIndices(g) : e > 0 => Leq(g.endpoints[e - 1], g.endpoints[e])}

SpanningTrees(g) == {es \in SUBSET EdgeIndices(g) : IsSpanningTree(g, es)}

\* ------------------------------------------------------------ actions
InitStart ==
    \E g \in InputGraphs, ml \in 1..MaxMinLen :
        /\ graph = g
        /\ minimum_length = ml
        /\ stage = "Unlayered"
        /\ fault = ""
        /\ nodes = 0
        /\ dfs = NewTightTreeDFS
        /\ pivots = 0
        /\ upd = NoUpd
        /\ entry = None

\* Unlayered::initial_ranking
InitialRanking ==
    /\ stage = "Unlayered"
    /\ IF TopoOrders(graph) = {}
       THEN /\ stage' = "Panicked"
            /\ fault' = "initial_ranking"
            /\ UNCHANGED graph
       ELSE \E order \in TopoOrders(graph) :
            /\ graph' = initial_ranking(graph, order)
            /\ stage' = "Ranked"
            /\ UNCHANGED fault
    /\ UNCHANGED <<minimum_length, nodes, dfs, pivots, upd, entry>>

\* One evaluation of the while condition of Ranked::make_tight and, when it
\* holds, the loop body; when it fails, mark_tree_edges and the Tight result.
MakeTight ==
    /\ stage = "Ranked"
    /\ UNCHANGED <<minimum_length, pivots, upd, entry>>
    /\ IF nodes >= graph.node_count
       THEN \* nodes.next().unwrap() on an exhausted iterator
            /\ stage' = "Panicked"
            /\ fault' = "make_tight"
            /\ UNCHANGED <<graph, nodes, dfs>>
       ELSE LET r == tight_tree(graph, minimum_length,
                                [vertices |-> dfs.vertices, edges |-> dfs.edges,
                                 visited |-> {}, count |-> 0], nodes)
                d == [vertices |-> r.vertices, edges |-> r.edges]
                edge == find_non_tight_edge(graph, minimum_length, d)
                s == slack(graph, minimum_length, Unwrap(edge))
                delta == IF contains_vertex(d, target(graph, Unwrap(edge))) THEN -s ELSE s
            IN  /\ nodes' = nodes + 1
                /\ dfs' = d
                /\ IF r.count < graph.node_count
                   THEN IF edge = None
                        THEN /\ stage' = "Panicked"
                             /\ fault' = "find_non_tight_edge"
                             /\ UNCHANGED graph
                        ELSE /\ graph' = tighten_edge(graph, d.edges, delta)
                             /\ UNCHANGED <<stage, fault>>
                   ELSE /\ graph' = mark_tree_edges(graph, d.edges)
                        /\ stage' = "Tight"
                        /\ UNCHANGED fault

\* Tight::init_cutvalues
InitCutvalues ==
    /\ stage = "Tight"
    /\ LET r == calculate_cut_values(graph, leaves(graph))
       IN  /\ graph' = r.graph
           /\ IF r.returned
              THEN stage' = "InitLowLim" /\ UNCHANGED fault
              ELSE stage' = "Diverged" /\ fault' = "calculate_cut_values"
    /\ UNCHANGED <<minimum_length, nodes, dfs, pivots, upd, entry>>

\* InitLowLim::initialize_low_lim
InitializeLowLim ==
    /\ stage = "InitLowLim"
    /\ LET r == dfs_low_lim(graph, 0, None, graph.node_count, {})
       IN  \E end \in Ends(r.outcome) :
             /\ graph' = r.graph
             /\ stage' = IF end = "returned" THEN "LowLimDone" ELSE end
             /\ fault' = IF end = "returned" THEN fault ELSE "dfs_low_lim"
    /\ UNCHANGED <<minimum_length, nodes, dfs, pivots, upd, entry>>

\* A Tight built directly.
InitTight ==
    \E g \in SortedInputGraphs, ml \in 1..MaxMinLen :
      \E es \in SpanningTrees(g), w \in [EdgeIndices(g) -> 1..MaxWeight] :
        /\ Feasibility(WithTree(g, es, ml, w), ml)
        /\ graph = WithTree(g, es, ml, w)
        /\ minimum_length = ml
        /\ stage = "Tight"
        /\ fault = ""
        /\ nodes = 0
        /\ dfs = NewTightTreeDFS
        /\ pivots = 0
        /\ upd = NoUpd
        /\ entry = None

\* A Feasible built directly.
InitFeasible ==
    \E g \in SortedInputGraphs, ml \in 1..MaxMinLen :
      \E es \in SpanningTrees(g), w \in [EdgeIndices(g) -> 1..MaxWeight] :
        /\ Feasibility(WithTree(g, es, ml, w), ml)
        /\ graph = WithLowLim(WithCutValues(WithTree(g, es, ml, w)))
        /\ minimum_length = ml
        /\ stage = "Feasible"
        /\ fault = ""
        /\ nodes = 0
        /\ dfs = NewTightTreeDFS
        /\ pivots = 0
        /\ upd = NoUpd
        /\ entry = None

Init == InitStart

Next == InitialRanking \/ MakeTight \/ InitCutvalues \/ InitializeLowLim

Spec == Init /\ [][Next]_vars

\* One iteration of the while loop of Feasible::rank.
Pivot ==
    /\ stage = "Feasible"
    /\ leave_edge(graph) # None
    /\ pivots < MaxPivots
    /\ pivots' = pivots + 1
    /\ LET r == pivot(graph, minimum_length, Unwrap(leave_edge(graph)))
       IN  \E end \in Ends(r.outcome) :
             /\ graph' = r.graph
             /\ stage' = IF end = "returned" THEN "Feasible" ELSE end
             /\ fault' = r.fault
    /\ UNCHANGED <<minimum_length, nodes, dfs, upd, entry>>

\* Feasible::rank returns: leave_edge found no edge.
RankReturn ==
    /\ stage = "Feasible"
    /\ leave_edge(graph) = None
    /\ stage' = "RankDone"
    /\ UNCHANGED <<graph, minimum_length, fault, nodes, dfs, pivots, upd, entry>>

\* The Pivoter on a Feasible built directly.
NextFeasible == Pivot \/ RankReturn

SpecFeasible == InitFeasible /\ [][NextFeasible]_vars

\* The cut value engine and the labeller on a Tight built directly.
NextTight == InitCutvalues \/ InitializeLowLim

SpecTight == InitTight /\ [][NextTight]_vars

\* ------------------------------------------------------------ what a caller may hand to start
\* The example of Gansner et al.: vertices a..h are 0..7.
ExampleEdges ==
    <<<<0, 1>>, <<1, 2>>, <<2, 3>>, <<3, 7>>, <<0, 4>>, <<4, 6>>, <<6, 7>>, <<0, 5>>, <<5, 6>>>>

ExampleGraph == from_edges(ExampleEdges)

\* Connected graphs, with or without directed cycles, from edge lists in
\* nondecreasing order of (tail, head).
AnyGraphs ==
    {g \in {from_edges(es) : es \in EdgeLists} :
        /\ IsConnected(g)
        /\ \A e \in EdgeIndices(g) : e > 0 => Leq(g.endpoints[e - 1], g.endpoints[e])}

\* start(edges, minimum_length) for any edge list and any u32 minimum_length
\* (0 included), and for the example.
InitCaller ==
    \E g \in AnyGraphs \cup {ExampleGraph}, ml \in 0..MaxMinLen :
        /\ graph = g
        /\ minimum_length = ml
        /\ stage = "Unlayered"
        /\ fault = ""
        /\ nodes = 0
        /\ dfs = NewTightTreeDFS
        /\ pivots = 0
        /\ upd = NoUpd
        /\ entry = None

SpecCaller == InitCaller /\ [][Next]_vars

\* ------------------------------------------------------------ properties
IncomingNeighbors(g, v) == {source(g, e) : e \in {x \in EdgeIndices(g) : target(g, x) = v}}

\* C1: after initial_ranking and make_tight exactly n-1 edges are tree edges,
\* they form a spanning tree over all vertices, and every tree edge is tight.
C1_TightSpanningTree ==
    stage = "Tight" =>
        /\ IsSpanningTree(graph, TreeEdges(graph))
        /\ Tightness(graph, minimum_length)

\* C2: once the build phase has completed, every edge spans at least
\* minimum_length (I1), for every minimum_length >= 1.
C2_FeasibleAfterBuild ==
    stage = "Tight" => Feasibility(graph, minimum_length)

\* C3: after initial_ranking every vertex without incoming edges has rank 0,
\* every other vertex has rank max(rank(u) + 1 : u -> v), so every edge spans
\* at least 1 and no vertex can move up without breaking an incoming edge.
C3_LongestPathRanking ==
    (stage = "Ranked" /\ nodes = 0) =>
        /\ \A v \in NodeIndices(graph) :
              IF IncomingNeighbors(graph, v) = {}
              THEN graph.vertex[v].rank = 0
              ELSE /\ graph.vertex[v].rank =
                        Max({graph.vertex[u].rank + 1 : u \in IncomingNeighbors(graph, v)})
                   /\ \E u \in IncomingNeighbors(graph, v) :
                        graph.vertex[v].rank - graph.vertex[u].rank = 1
        /\ \A e \in EdgeIndices(graph) :
              graph.vertex[target(graph, e)].rank - graph.vertex[source(graph, e)].rank >= 1

C3_Witness ==
    /\ stage = "Ranked"
    /\ nodes = 0
    /\ \E v \in NodeIndices(graph) :
          /\ graph.vertex[v].rank = 2
          /\ \E u \in IncomingNeighbors(graph, v) : graph.vertex[u].rank = 0

\* The vertices of the subtree of x in the tree rooted at vertex 0: those
\* that vertex 0 does not reach along tree edges once x is taken out.
Subtree(g, x) ==
    IF x = 0 THEN NodeIndices(g)
    ELSE NodeIndices(g) \
         ReachBy(g, {e \in TreeEdges(g) : source(g, e) # x /\ target(g, e) # x}, {0})

InSubtreeByLowLim(g, x) ==
    {y \in NodeIndices(g) : g.vertex[x].low <= g.vertex[y].lim /\ g.vertex[y].lim <= g.vertex[x].lim}

\* initialize_low_lim has been called (and has returned, or never will).
LowLimCalled == stage = "LowLimDone" \/ fault = "dfs_low_lim"

\* C4: given a tight spanning tree, init_cutvalues returns with a cut value on
\* every tree edge, equal to the cut computed by definition: weights of the
\* edges from the tail component to the head component minus those going back.
C4_CutValuesBruteForce ==
    ((stage = "InitLowLim" \/ fault = "calculate_cut_values")
       /\ IsSpanningTree(graph, TreeEdges(graph)) /\ Tightness(graph, minimum_length)) =>
        /\ stage = "InitLowLim"
        /\ \A e \in TreeEdges(graph) : graph.edge[e].cut_value = Some(BruteForceCut(graph, e))

\* C5: on a graph with a tight spanning tree initialize_low_lim terminates,
\* and then for every vertex x, leaves included, the vertices y with
\* low(x) <= lim(y) <= lim(x) are exactly the vertices of x's subtree.
C5_LowLimSubtrees ==
    LowLimCalled =>
        /\ stage = "LowLimDone"
        /\ \A x \in NodeIndices(graph) : InSubtreeByLowLim(graph, x) = Subtree(graph, x)

\* C6: the labelling DFS walks only tree edges: every vertex initialize_low_lim
\* gives a parent is joined to that parent by a tree edge, and the root,
\* vertex 0, has no parent and lim = n.
C6_ParentsAlongTreeEdges ==
    LowLimCalled =>
        /\ graph.vertex[0].parent = None
        /\ graph.vertex[0].lim = graph.node_count
        /\ \A v \in NodeIndices(graph) :
              IsSome(graph.vertex[v].parent) =>
                  \E e \in TreeEdges(graph) :
                      {source(graph, e), target(graph, e)} = {v, Unwrap(graph.vertex[v].parent)}

\* I6: no tree edge has a negative cut value.
Optimality(g) ==
    \A e \in TreeEdges(g) : IsSome(g.edge[e].cut_value) /\ Unwrap(g.edge[e].cut_value) >= 0

\* The objective: sum over the edges of weight * (rank(head) - rank(tail)).
RECURSIVE WeightedLength(_, _)
WeightedLength(g, es) ==
    IF es = {} THEN 0
    ELSE LET e == CHOOSE x \in es : TRUE
         IN  g.edge[e].weight * (g.vertex[target(g, e)].rank - g.vertex[source(g, e)].rank)
             + WeightedLength(g, es \ {e})

TotalLength(g) == WeightedLength(g, EdgeIndices(g))

\* C7: the Pivoter terminates: every pivot it begins completes (execute hands
\* the next Feasible back), and when rank returns no tree edge has a negative
\* cut value.
C7_PivoterTerminates ==
    /\ stage \in {"Feasible", "RankDone"}
    /\ stage = "RankDone" => Optimality(graph)

\* C8: a pivot begun with every edge spanning at least minimum_length runs
\* through execute and leaves every edge spanning at least minimum_length.
C8_PivotKeepsFeasibility ==
    [][(stage = "Feasible" /\ pivots' = pivots + 1 /\ Feasibility(graph, minimum_length)) =>
          (stage' = "Feasible" /\ Feasibility(graph', minimum_length'))]_vars

\* C9: across a pivot, from the Feasible it begins with to the Feasible that
\* execute hands back, the total weighted edge length does not increase.
C9_PivotNeverLengthens ==
    [][(stage = "Feasible" /\ pivots' = pivots + 1) =>
          (stage' = "Feasible" /\ TotalLength(graph') <= TotalLength(graph))]_vars

\* C10: on a Feasible without negative cut value rank begins no pivot and
\* returns with every vertex and edge field as it found them.
C10_OptimalIsFixpoint ==
    [][(stage = "Feasible" /\ \A e \in EdgeIndices(graph) :
            graph.edge[e].cut_value = None \/ Unwrap(graph.edge[e].cut_value) >= 0) =>
          (stage' = "RankDone" /\ graph' = graph /\ pivots' = pivots)]_vars

\* rank has returned without a pivot on a tree that has an edge of cut value
\* 0 and a non-tree edge.
C10_Witness ==
    /\ stage = "RankDone"
    /\ pivots = 0
    /\ \E e \in TreeEdges(graph) : graph.edge[e].cut_value = Some(0)
    /\ TreeEdges(graph) # EdgeIndices(graph)

\* The build has stopped short of a Tight: make_tight panicked.
MakeTightFailed == fault \in {"make_tight", "find_non_tight_edge"}

\* init_cutvalues has been called (and has returned, or never will).
CutValuesCalled == stage \in {"InitLowLim", "LowLimDone"} \/ fault \in {"calculate_cut_values", "dfs_low_lim"}

\* C11: on two vertices joined by one edge, for any minimum_length >= 1,
\* initial_ranking, make_tight and init_cutvalues all complete, and then the
\* tail has rank 0, the head has rank minimum_length, the edge is a tree edge
\* and its cut value is its weight.
C11_TwoVertices ==
    (graph.node_count = 2 /\ graph.edge_count = 1) =>
        /\ ~MakeTightFailed
        /\ fault # "calculate_cut_values"
        /\ stage = "InitLowLim" =>
              /\ graph.vertex[source(graph, 0)].rank = 0
              /\ graph.vertex[target(graph, 0)].rank = minimum_length
              /\ graph.edge[0].is_tree_edge
              /\ graph.edge[0].cut_value = Some(graph.edge[0].weight)

\* The edges with the same tail and head as e, e included.
Parallels(g, e) == {x \in EdgeIndices(g) : g.endpoints[x] = g.endpoints[e]}

\* C12: where several parallel edges join two vertices and one of them is in
\* the tree, init_cutvalues returns with the cut value on that tree edge,
\* counting the weights of its parallels, with no cut value on the
\* parallels, and every parallel edge spans at least minimum_length.
C12_ParallelEdges ==
    CutValuesCalled =>
        \A e \in TreeEdges(graph) :
            Cardinality(Parallels(graph, e)) > 1 =>
                /\ fault # "calculate_cut_values"
                /\ Parallels(graph, e) \cap TreeEdges(graph) = {e}
                /\ graph.edge[e].cut_value = Some(BruteForceCut(graph, e))
                /\ \A x \in Parallels(graph, e) \ {e} : graph.edge[x].cut_value = None
                /\ \A x \in Parallels(graph, e) : slack(graph, minimum_length, x) >= 0

\* C13: at the stage boundaries from init_cutvalues' return on, an edge has
\* a cut value exactly when it is a tree edge.
C13_CutValueIffTreeEdge ==
    stage \in {"InitLowLim", "LowLimDone", "Feasible", "RankDone"} =>
        \A e \in EdgeIndices(graph) : IsSome(graph.edge[e].cut_value) = graph.edge[e].is_tree_edge

\* C14: on a graph with a directed cycle initial_ranking ends in the fatal
\* error of the topological sort: no Ranked is produced and no rank written.
C14_CycleIsFatal ==
    ~IsAcyclic(graph) =>
        /\ stage \in {"Unlayered", "Panicked"}
        /\ stage = "Panicked" => fault = "initial_ranking"
        /\ \A v \in NodeIndices(graph) : graph.vertex[v] = DefaultVertex

C14_Witness ==
    /\ ~IsAcyclic(graph)
    /\ stage = "Panicked"
    /\ fault = "initial_ranking"

\* C15: with minimum_length = 0 the pipeline stops at its entry with a fatal
\* error: no ranking is computed, no Ranked is produced.
C15_ZeroMinimumLengthRejected ==
    minimum_length = 0 => (stage \in {"Unlayered", "Panicked"} /\ fault \in {"", "start"})

\* A feasible ranking of the example of least total weighted length, a..h:
\* a-b-c-d-h and a-e-g-h each span rank(h) >= 4, a-f-g spans rank(g) >= 2.
ExampleOptimalRanks == <<0, 1, 2, 3, 1, 1, 2, 4>>

ExampleOptimum ==
    TotalLength([ExampleGraph EXCEPT !.vertex =
        [v \in NodeIndices(ExampleGraph) |->
            [DefaultVertex EXCEPT !.rank = ExampleOptimalRanks[v + 1]]]])

\* C16: on the example of Gansner et al. with minimum_length = 1 every stage
\* of the pipeline returns, and when rank has returned the ranking is
\* feasible, of least total length, and no tree edge has a negative cut value.
C16_GansnerExample ==
    (graph.endpoints = ExampleGraph.endpoints /\ minimum_length = 1) =>
        /\ stage \notin {"Panicked", "Diverged"}
        /\ stage = "RankDone" =>
              /\ Optimality(graph)
              /\ Feasibility(graph, 1)
              /\ TotalLength(graph) = ExampleOptimum

\* The shift the loop body of make_tight asks tighten_edge for, given the
\* DFS d of this iteration.
TighteningDelta(g, ml, d) ==
    LET edge == Unwrap(find_non_tight_edge(g, ml, d))
    IN  IF contains_vertex(d, target(g, edge)) THEN -slack(g, ml, edge) ELSE slack(g, ml, edge)

\* C17: a tightening step of make_tight moves every vertex of the tight
\* component by the same delta, once, and no other vertex; the tree edges of
\* the component stay tight and the chosen edge becomes tight.
C17_TighteningShiftsComponent ==
    [][(stage = "Ranked" /\ stage' = "Ranked" /\ nodes' = nodes + 1) =>
          LET delta == TighteningDelta(graph, minimum_length, dfs')
              edge == Unwrap(find_non_tight_edge(graph, minimum_length, dfs'))
          IN  /\ \A v \in NodeIndices(graph) :
                    graph'.vertex[v].rank =
                        graph.vertex[v].rank + (IF contains_vertex(dfs', v) THEN delta ELSE 0)
              /\ \A e \in dfs'.edges : slack(graph', minimum_length, e) = 0
              /\ slack(graph', minimum_length, edge) = 0]_vars

\* C18: on a connected DAG make_tight comes to its end with a Tight: it
\* never runs out of start vertices and always finds an edge to tighten.
C18_MakeTightTerminates == IsAcyclic(graph) => ~MakeTightFailed

\* The two components of the tree without its edge e.
HeadComponent(g, e) == ReachBy(g, TreeEdges(g) \ {e}, {target(g, e)})
TailComponent(g, e) == ReachBy(g, TreeEdges(g) \ {e}, {source(g, e)})

\* The non-tree edges from the head component of e to its tail component.
Crossing(g, e) ==
    {x \in EdgeIndices(g) \ TreeEdges(g) :
        source(g, x) \in HeadComponent(g, e) /\ target(g, x) \in TailComponent(g, e)}

\* C19: for a leave edge (a tree edge of negative cut value), whichever of
\* its endpoints has the smaller lim, enter_edge returns a non-tree edge
\* from the head component to the tail component, of least slack among those
\* and of lowest id among those of least slack.
C19_EnterEdgeCrossesHeadToTail ==
    stage = "Feasible" =>
        \A e \in TreeEdges(graph) :
            (IsSome(graph.edge[e].cut_value) /\ Unwrap(graph.edge[e].cut_value) < 0) =>
                LET r == enter_edge(graph, minimum_length, e)
                IN  /\ IsSome(r)
                    /\ Unwrap(r) \in Crossing(graph, e)
                    /\ \A x \in Crossing(graph, e) :
                          \/ slack(graph, minimum_length, Unwrap(r)) < slack(graph, minimum_length, x)
                          \/ /\ slack(graph, minimum_length, Unwrap(r)) = slack(graph, minimum_length, x)
                             /\ Unwrap(r) <= x

\* The least common ancestor of w and x in the tree rooted at vertex 0: the
\* vertex of smallest subtree whose subtree holds both.
LeastCommonAncestor(g, w, x) ==
    CHOOSE l \in NodeIndices(g) :
        /\ {w, x} \subseteq Subtree(g, l)
        /\ \A m \in NodeIndices(g) : {w, x} \subseteq Subtree(g, m) => Subtree(g, l) \subseteq Subtree(g, m)

\* The parent of v in the tree rooted at vertex 0: its tree neighbour whose
\* subtree holds v.
TreeParent(g, v) ==
    CHOOSE p \in NodeIndices(g) :
        /\ p # v
        /\ v \in Subtree(g, p)
        /\ \E e \in TreeEdges(g) : {source(g, e), target(g, e)} = {v, p}

\* The tree edges from v up to its ancestor l, in that order.
RECURSIVE PathUp(_, _, _)
PathUp(g, v, l) ==
    IF v = l THEN <<>>
    ELSE LET p == TreeParent(g, v)
         IN  <<CHOOSE e \in TreeEdges(g) : {source(g, e), target(g, e)} = {v, p}>> \o PathUp(g, p, l)

Reverse(q) == [i \in 1..Len(q) |-> q[Len(q) + 1 - i]]

\* C20: for every non-tree edge (w, x) get_path_in_tree returns, without a
\* panic, the least common ancestor l of w and x and the tree edges from w
\* up to l followed by those from l down to x.
C20_PathInTree ==
    stage = "Feasible" =>
        \A e \in EdgeIndices(graph) \ TreeEdges(graph) :
            LET r == get_path_in_tree(graph, e)
                w == source(graph, e)
                x == target(graph, e)
                l == LeastCommonAncestor(graph, w, x)
            IN  /\ r.outcome = "returned"
                /\ r.least_common_ancestor = l
                /\ r.path = PathUp(graph, w, l) \o Reverse(PathUp(graph, x, l))

\* ------------------------------------------------------------ an Upd built directly
\* The entering edge the design asks for (4.6): the non-tree edge from the
\* head component of the leave edge to its tail component of least slack,
\* the lowest id among several.
CrossingOfLeastSlack(g, ml, e) ==
    LET least == Min({slack(g, ml, x) : x \in Crossing(g, e)})
    IN  Min({x \in Crossing(g, e) : slack(g, ml, x) = least})

\* The tree path between the endpoints of the non-tree edge f: up from its
\* tail to their least common ancestor and down to its head.
ConnectingPath(g, f) ==
    LET l == LeastCommonAncestor(g, source(g, f), target(g, f))
    IN  PathUp(g, source(g, f), l) \o Reverse(PathUp(g, target(g, f), l))

\* The graph g with a second edge between the endpoints of its edge e, added
\* right after e.
Doubled(g, e) ==
    LET edges == [i \in 1..g.edge_count |-> g.endpoints[i - 1]]
    IN  from_edges(SubSeq(edges, 1, e + 1) \o <<edges[e + 1]>> \o SubSeq(edges, e + 2, g.edge_count))

\* The graphs an Upd is built on: the sorted input graphs and those with
\* their first edge doubled.
UpdInputGraphs == SortedInputGraphs \cup {Doubled(g, 0) : g \in SortedInputGraphs}

\* Upd::new on what Feasible::exchange is to hand it: the graph with leave
\* and entering edge swapped, the connecting path, the leave edge and the
\* least common ancestor of the entering edge's endpoints.
InitUpd ==
    \E g \in UpdInputGraphs, ml \in 1..MaxMinLen :
      \E es \in {t \in SpanningTrees(g) : Feasibility(WithTree(g, t, ml, [e \in EdgeIndices(g) |-> 1]), ml)},
         w \in [EdgeIndices(g) -> 1..MaxWeight] :
        LET f0 == WithLowLim(WithCutValues(WithTree(g, es, ml, w)))
            edge == Unwrap(leave_edge(f0))
            swap_edge == CrossingOfLeastSlack(f0, ml, edge)
        IN  /\ Feasibility(WithTree(g, es, ml, w), ml)
            /\ leave_edge(f0) # None
            /\ graph = swap_edges(f0, edge, swap_edge)
            /\ upd = NewUpd(ConnectingPath(f0, swap_edge), edge,
                            LeastCommonAncestor(f0, source(f0, swap_edge), target(f0, swap_edge)))
            /\ entry = Some(swap_edges(f0, edge, swap_edge))
            /\ minimum_length = ml
            /\ stage = "Upd"
            /\ fault = ""
            /\ nodes = 0
            /\ dfs = NewTightTreeDFS
            /\ pivots = 0

\* Upd::update_cutvalues
UpdUpdateCutvalues ==
    /\ stage = "Upd"
    /\ ~upd.updated_cut_values
    /\ LET r == update_cutvalues(graph, upd.connecting_path, upd.removed_edge)
       IN  /\ graph' = r.graph
           /\ IF r.returned
              THEN /\ upd' = [upd EXCEPT !.updated_cut_values = TRUE]
                   /\ UNCHANGED <<stage, fault>>
              ELSE /\ stage' = "Diverged"
                   /\ fault' = "calculate_cut_values"
                   /\ UNCHANGED upd
    /\ UNCHANGED <<minimum_length, nodes, dfs, pivots, entry>>

\* Upd::update_low_lim
UpdUpdateLowLim ==
    /\ stage = "Upd"
    /\ ~upd.updated_low_lim
    /\ LET r == update_low_lim(graph, upd.least_common_ancestor)
       IN  \E end \in Ends(r.outcome) :
             /\ graph' = r.graph
             /\ IF end = "returned"
                THEN /\ upd' = [upd EXCEPT !.updated_low_lim = TRUE]
                     /\ UNCHANGED <<stage, fault>>
                ELSE /\ stage' = end
                     /\ fault' = "dfs_low_lim"
                     /\ UNCHANGED upd
    /\ UNCHANGED <<minimum_length, nodes, dfs, pivots, entry>>

\* Upd::update_ranks
UpdUpdateRanks ==
    /\ stage = "Upd"
    /\ ~upd.updated_ranks
    /\ LET r == update_ranks(graph, minimum_length)
       IN  /\ graph' = r.graph
           /\ IF r.returned
              THEN /\ upd' = [upd EXCEPT !.updated_ranks = TRUE]
                   /\ UNCHANGED <<stage, fault>>
              ELSE /\ stage' = "Diverged"
                   /\ fault' = "update_neighbor_ranks"
                   /\ UNCHANGED upd
    /\ UNCHANGED <<minimum_length, nodes, dfs, pivots, entry>>

\* The three updates of a pivot, each on an Upd built directly.
NextUpd == UpdUpdateCutvalues \/ UpdUpdateLowLim \/ UpdUpdateRanks

SpecUpd == InitUpd /\ [][NextUpd]_vars

\* C21: after the exchange the tree edges are a spanning tree of n-1 edges,
\* and update_ranks returns with rank 0 at the start vertex and every tree
\* edge tight.
C21_TreeAndRanksAfterPivot ==
    (IsSome(entry) /\ (upd.updated_ranks \/ fault = "update_neighbor_ranks")) =>
        /\ upd.updated_ranks
        /\ IsSpanningTree(graph, TreeEdges(graph))
        /\ graph.vertex[0].rank = 0
        /\ Tightness(graph, minimum_length)

\* The edges of a sequence of edges.
EdgesOf(path) == {path[i] : i \in 1..Len(path)}

\* C22: update_cutvalues returns with, on every edge of the new tree, the
\* entering edge included, the brute-force cut value of that edge in the new
\* tree, and with the cut values of the tree edges off the connecting path
\* as they were.
C22_CutValuesAfterPivot ==
    (IsSome(entry) /\ (upd.updated_cut_values \/ fault = "calculate_cut_values")) =>
        /\ upd.updated_cut_values
        /\ \A e \in TreeEdges(graph) : graph.edge[e].cut_value = Some(BruteForceCut(graph, e))
        /\ \A e \in TreeEdges(Unwrap(entry)) \ EdgesOf(upd.connecting_path) :
              IsSome(Unwrap(entry).edge[e].cut_value) =>
                  graph.edge[e].cut_value = Unwrap(entry).edge[e].cut_value

\* C23: update_low_lim returns with low, lim and parent of every vertex
\* outside the subtree of the least common ancestor l as they were, lim(l) as
\* it was, and the subtree predicate exact for every vertex of the new tree.
C23_LowLimAfterPivot ==
    (IsSome(entry) /\ (upd.updated_low_lim \/ fault = "dfs_low_lim")) =>
        LET l == upd.least_common_ancestor
            was == Unwrap(entry).vertex
        IN  /\ upd.updated_low_lim
            /\ \A v \in NodeIndices(graph) \ Subtree(graph, l) :
                  /\ graph.vertex[v].low = was[v].low
                  /\ graph.vertex[v].lim = was[v].lim
                  /\ graph.vertex[v].parent = was[v].parent
            /\ graph.vertex[l].lim = was[l].lim
            /\ \A x \in NodeIndices(graph) : InSubtreeByLowLim(graph, x) = Subtree(graph, x)
====
